---- MODULE Spec2Model ----
(***************************************************************************)
(* A model of the Relic Chunky container core: the folder/data chunk       *)
(* codec (two-pass size patch, windowed folder reads), the container       *)
(* codec (magic word, version header), lazy data chunk payloads, the       *)
(* Version primitive, the filesystem serializer round trip, the            *)
(* fixed-layout serializers, chunk codes, the version registry, chunk code *)
(* paths over parent references and the walk generators.                   *)
(*                                                                         *)
(* Bytes are naturals in 0..255; byte strings and ASCII text are sequences *)
(* of bytes (the serializers' section keeps the two types apart).  A       *)
(* failing call is a result record whose err field names the exception     *)
(* ("none" when the call returned).                                        *)
(***************************************************************************)
EXTENDS Naturals, Sequences, FiniteSets, TLC

VARIABLES
    tree,       \* codec: the in-memory container [header, chunks]
    stream,     \* codec: the byte stream [buf, pos] packed to / unpacked from
    damage,     \* codec: what was done to the packed bytes before the unpack
    call,       \* codec: the arguments of the last unpack [read_magic, start]
    result,     \* codec: what the last unpack returned [err, val, stream]
    pc,         \* codec: position of the scenario
    chunky,     \* codec: the core Chunky [metadata, folders, data_chunks] read
    rewritten,  \* codec: the sibling chunks written back from chunky
    lstream,    \* lazy: the backing stream of the data chunk [buf, pos, closed]
    chunk,      \* lazy: the RawDataChunk [size, _data, _lazy_info]
    eager,      \* lazy: what the eager read of the same payload returned
    lastRead,   \* lazy: what the last access of chunk.data did
    assigned,   \* lazy: the bytes last assigned to chunk.data, if any
    vargs,      \* version: the constructor arguments of the two Versions
    vobj,       \* version: the two constructed Versions (or the exception)
    vcmp,       \* version: the last comparison [op, res]
    src_fs,     \* filesystem: the files written [essence, data], in order
    chunky_blob,\* filesystem: the stream written to and read from
    dst_fs,     \* filesystem: what the read returned [err, val, stream]
    fpc,        \* filesystem: position of the scenario
    sio,        \* serializers: the stream unpacked from / packed to
    sres,       \* serializers: the last call [op, ser, arg, r, before, other]
    spc,        \* serializers: position of the scenario
    installed,  \* dispatch: the modules that can be imported
    apis,       \* dispatch: the registry gather_apis returned (Version -> API)
    dstream,    \* dispatch: the stream read
    dres,       \* dispatch: what the read returned [err, val, stream]
    dpc,        \* dispatch: position of the scenario
    heap,       \* tree: the chunk objects by identity; heap[0] is the Chunky
    tcall,      \* tree: the last call [op, node, r]
    tpc,        \* tree: position of the scenario
    gen         \* tree: the walk generator [root, started, stack]

codecVars == <<tree, stream, damage, call, result, pc, chunky, rewritten>>
lazyVars == <<lstream, chunk, eager, lastRead, assigned>>
verVars == <<vargs, vobj, vcmp>>
fsVars == <<src_fs, chunky_blob, dst_fs, fpc>>
serVars == <<sio, sres, spc>>
dispVars == <<installed, apis, dstream, dres, dpc>>
treeVars == <<heap, tcall, tpc, gen>>
vars == <<codecVars, lazyVars, verVars, fsVars, serVars, dispVars, treeVars>>
notCodec == <<lazyVars, verVars, fsVars, serVars, dispVars, treeVars>>
notLazy == <<codecVars, verVars, fsVars, serVars, dispVars, treeVars>>
notVer == <<codecVars, lazyVars, fsVars, serVars, dispVars, treeVars>>
notFs == <<codecVars, lazyVars, verVars, serVars, dispVars, treeVars>>
notSer == <<codecVars, lazyVars, verVars, fsVars, dispVars, treeVars>>
notDisp == <<codecVars, lazyVars, verVars, fsVars, serVars, treeVars>>
notTree == <<codecVars, lazyVars, verVars, fsVars, serVars, dispVars>>

----------------------------------------------------------------------------
(* Bounds of the model *)

\* the largest number of chunks of a container of the tree scenario
MaxNodes == 3

\* the largest version value a container of the dispatch scenario carries
MaxVersion == 4

\* the largest number of bytes before, and after, the field in the stream
MaxPad == 1

\* the largest length of a string a chunk code is constructed from
MaxCodeLen == 5

\* the largest number of files of the source filesystem
MaxFiles == 3

\* the largest major and the largest minor number of a Version
MaxMajor == 3
MaxMinor == 2

\* the largest length of a lazy chunk's backing stream, and the largest
\* declared size of its payload
MaxBuf == 3

\* the largest number of chunks (folders and data chunks) of a container
MaxChunks == 3

----------------------------------------------------------------------------
(* Byte strings *)

Min(a, b) == IF a < b THEN a ELSE b

\* "<I": a 4-byte little-endian unsigned integer
U32(n) == << n % 256, (n \div 256) % 256, (n \div 65536) % 256, (n \div 16777216) % 256 >>

FromU32(b) == b[1] + 256 * b[2] + 65536 * b[3] + 16777216 * b[4]

\* bytes.decode("ascii") succeeds when every byte is below 128
IsAscii(b) == \A i \in 1..Len(b) : b[i] < 128

\* b"Relic Chunky\r\n\x1a\0"
MagicWord == << 82, 101, 108, 105, 99, 32, 67, 104, 117, 110, 107, 121, 13, 10, 26, 0 >>

\* ChunkType.Folder = "FOLD", ChunkType.Data = "DATA"
FOLD == << 70, 79, 76, 68 >>
DATA == << 68, 65, 84, 65 >>

----------------------------------------------------------------------------
(* Streams: io.BytesIO as the code uses it (read, write, seek, tell) *)

BytesIO(b) == [buf |-> b, pos |-> 0]

\* stream.read(n): the bytes from pos, at most n, at most to the end
StreamRead(s, n) ==
    LET last == Min(s.pos + n, Len(s.buf))
        data == IF s.pos >= Len(s.buf) THEN << >> ELSE SubSeq(s.buf, s.pos + 1, last)
    IN  [data |-> data, stream |-> [s EXCEPT !.pos = s.pos + Len(data)]]

\* stream.write(b): overwrites from pos, extends the buffer when it runs past the end
StreamWrite(s, b) ==
    LET end == s.pos + Len(b)
        len == IF end > Len(s.buf) THEN end ELSE Len(s.buf)
        buf == [i \in 1..len |->
                  IF i > s.pos /\ i <= end THEN b[i - s.pos]
                  ELSE IF i <= Len(s.buf) THEN s.buf[i] ELSE 0]
    IN  [stream |-> [s EXCEPT !.buf = buf, !.pos = end], written |-> Len(b)]

StreamSeek(s, p) == [s EXCEPT !.pos = p]

StreamTell(s) == s.pos

----------------------------------------------------------------------------
(* Results of calls that may raise *)

Ok(v, s) == [err |-> "none", val |-> v, stream |-> s]
Raise(e, s) == [err |-> e, val |-> << >>, stream |-> s]

\* an exception of r propagates; otherwise the code goes on with K
Then(r, K(_)) == IF r.err # "none" THEN r ELSE K(r)

\* n bytes, or exception e when the stream ends before them
ReadExact(s, n, e) ==
    LET r == StreamRead(s, n)
    IN  IF Len(r.data) # n THEN Raise(e, r.stream) ELSE Ok(r.data, r.stream)

----------------------------------------------------------------------------
(* Version (core/definitions.py): a dataclass with the one field `value` *)

\* Version.pack: LAYOUT "<I" of (self.value,)
Version_pack(s, self) == StreamWrite(s, U32(self.value))

\* Version.unpack: LAYOUT.unpack_stream, then cls(*args)
Version_unpack(s) ==
    Then(ReadExact(s, 4, "struct.error"),
         LAMBDA r : Ok([value |-> FromU32(r.val)], r.stream))

----------------------------------------------------------------------------
(* Chunk header codec: type tag, chunk code, length-prefixed name, declared *)
(* size.  A header is [type, id, name, size].                               *)

ChunkHeader_bytes(h) == h.type \o h.id \o U32(Len(h.name)) \o h.name \o U32(h.size)

ChunkHeader_pack(s, h) == StreamWrite(s, ChunkHeader_bytes(h))

ChunkHeader_unpack(s) ==
    Then(ReadExact(s, 4, "FormatError"), LAMBDA t :
      IF t.val \notin {FOLD, DATA} THEN Raise("ChunkTypeError", t.stream) ELSE
    Then(ReadExact(t.stream, 4, "FormatError"), LAMBDA c :
      IF ~IsAscii(c.val) THEN Raise("ChunkNameError", c.stream) ELSE
    Then(ReadExact(c.stream, 4, "FormatError"), LAMBDA l :
    Then(ReadExact(l.stream, FromU32(l.val), "FormatError"), LAMBDA n :
      IF ~IsAscii(n.val) THEN Raise("ChunkNameError", n.stream) ELSE
    Then(ReadExact(n.stream, 4, "FormatError"), LAMBDA z :
      Ok([type |-> t.val, id |-> c.val, name |-> n.val, size |-> FromU32(z.val)],
         z.stream))))))

----------------------------------------------------------------------------
(* Chunks.  A chunk is [header, chunks, data]: a folder keeps its children  *)
(* in chunks (data empty), a data chunk keeps its payload in data.          *)

FolderChunk(chunks, header) == [header |-> header, chunks |-> chunks, data |-> << >>]
DataChunk(data, header) == [header |-> header, chunks |-> << >>, data |-> data]

IsFolder(c) == c.header.type = FOLD

\* eager payload read: exactly header.size bytes
DataChunk_unpack(s, header) ==
    Then(ReadExact(s, header.size, "FormatError"),
         LAMBDA r : Ok(DataChunk(r.val, header), r.stream))

\* the header with the true payload length, then the payload
DataChunk_pack(s, self) ==
    LET h == ChunkHeader_pack(s, [self.header EXCEPT !.size = Len(self.data)])
        d == StreamWrite(h.stream, self.data)
    IN  [stream |-> d.stream, written |-> h.written + d.written]

RECURSIVE read_all_chunks(_)
RECURSIVE FolderChunk_unpack(_, _)

\* one header, then the body its type tag selects
read_chunk(s) ==
    Then(ChunkHeader_unpack(s), LAMBDA h :
      IF h.val.type = FOLD THEN FolderChunk_unpack(h.stream, h.val)
      ELSE DataChunk_unpack(h.stream, h.val))

\* sibling chunks until the region (the rest of the stream) is exhausted
read_all_chunks(s) ==
    IF s.pos >= Len(s.buf) THEN Ok(<< >>, s)
    ELSE Then(read_chunk(s), LAMBDA c :
         Then(read_all_chunks(c.stream), LAMBDA rest :
           Ok(<< c.val >> \o rest.val, rest.stream)))

\* FolderChunk.unpack: the body is read into a window of header.size bytes,
\* the children are parsed from the window, the stream stays after the body
FolderChunk_unpack(s, header) ==
    Then(ReadExact(s, header.size, "AssertionError"), LAMBDA r :
    Then([read_all_chunks(BytesIO(r.val)) EXCEPT !.stream = r.stream], LAMBDA w :
      Ok(FolderChunk(w.val, header), r.stream)))

RECURSIVE write_all_chunks(_, _)
RECURSIVE FolderChunk_pack(_, _)

chunk_pack(s, c) == IF IsFolder(c) THEN FolderChunk_pack(s, c) ELSE DataChunk_pack(s, c)

\* every chunk in order; the number of bytes written
write_all_chunks(s, chunks) ==
    IF chunks = << >> THEN [stream |-> s, written |-> 0]
    ELSE LET a == chunk_pack(s, Head(chunks))
             b == write_all_chunks(a.stream, Tail(chunks))
         IN  [stream |-> b.stream, written |-> a.written + b.written]

\* FolderChunk.pack without the write-back: the header keeps the size it had
FolderChunk_pack_NoWriteBack(s, self) ==
    LET start == StreamTell(s)
        first == ChunkHeader_pack(s, self.header)
        body == write_all_chunks(first.stream, self.chunks)
    IN  [stream |-> body.stream, written |-> StreamTell(body.stream) - start]

\* FolderChunk.pack patching the size with the header's bytes counted in
FolderChunk_pack_SizeWithHeader(s, self) ==
    LET start == StreamTell(s)
        first == ChunkHeader_pack(s, self.header)
        body == write_all_chunks(first.stream, self.chunks)
        end == StreamTell(body.stream)
        header == [self.header EXCEPT !.size = end - start]
        back == ChunkHeader_pack(StreamSeek(body.stream, start), header)
    IN  [stream |-> StreamSeek(back.stream, end), written |-> end - start]

\* FolderChunk.pack without the seek to the end after the write-back
FolderChunk_pack_NoSeekEnd(s, self) ==
    LET start == StreamTell(s)
        first == ChunkHeader_pack(s, self.header)
        body == write_all_chunks(first.stream, self.chunks)
        header == [self.header EXCEPT !.size = body.written]
        end == StreamTell(body.stream)
        back == ChunkHeader_pack(StreamSeek(body.stream, start), header)
    IN  [stream |-> back.stream, written |-> end - start]

\* FolderChunk.pack: header, children, then the header again with the size
FolderChunk_pack(s, self) ==
    LET start == StreamTell(s)
        first == ChunkHeader_pack(s, self.header)
        body == write_all_chunks(first.stream, self.chunks)
        header == [self.header EXCEPT !.size = body.written]
        end == StreamTell(body.stream)
        back == ChunkHeader_pack(StreamSeek(body.stream, start), header)
    IN  [stream |-> StreamSeek(back.stream, end), written |-> end - start]

----------------------------------------------------------------------------
(* Container codec.  A container is [header, chunks], header = [version].   *)

RelicChunkyHeader_unpack(s) ==
    Then(Version_unpack(s), LAMBDA v : Ok([version |-> v.val], v.stream))

RelicChunkyHeader_pack(s, h) == Version_pack(s, h.version)

\* MagicWordIO.assert_magic_word: read the word's 16 bytes and compare
assert_magic_word(s) ==
    LET r == StreamRead(s, Len(MagicWord))
    IN  IF r.data # MagicWord THEN Raise("MagicMismatchError", r.stream)
        ELSE Ok(r.data, r.stream)

RelicChunky(chunks, header) == [header |-> header, chunks |-> chunks]

\* RelicChunky.unpack skipping over the magic word without comparing it
RelicChunky_unpack_NoAssert(s, read_magic) ==
    Then(IF read_magic THEN Ok(<< >>, StreamRead(s, Len(MagicWord)).stream)
         ELSE Ok(<< >>, s), LAMBDA m :
    Then(RelicChunkyHeader_unpack(m.stream), LAMBDA h :
    Then(read_all_chunks(h.stream), LAMBDA c :
      Ok(RelicChunky(c.val, h.val), c.stream))))

\* RelicChunky.unpack(stream, read_magic)
RelicChunky_unpack(s, read_magic) ==
    Then(IF read_magic THEN assert_magic_word(s) ELSE Ok(<< >>, s), LAMBDA m :
    Then(RelicChunkyHeader_unpack(m.stream), LAMBDA h :
    Then(read_all_chunks(h.stream), LAMBDA c :
      Ok(RelicChunky(c.val, h.val), c.stream))))

\* magic word, container header, chunks; the number of bytes written
RelicChunky_pack(s, self) ==
    LET m == StreamWrite(s, MagicWord)
        h == RelicChunkyHeader_pack(m.stream, self.header)
        c == write_all_chunks(h.stream, self.chunks)
    IN  [stream |-> c.stream, written |-> m.written + h.written + c.written]

----------------------------------------------------------------------------
(* The containers the model builds in memory *)

TestCC == << 84, 69, 83, 84 >>

\* the byte length of the serialized chunks: headers plus bodies
RECURSIVE ForestLen(_)
ChunkLen(c) ==
    Len(ChunkHeader_bytes(c.header))
        + (IF IsFolder(c) THEN ForestLen(c.chunks) ELSE Len(c.data))
ForestLen(chunks) ==
    IF chunks = << >> THEN 0 ELSE ChunkLen(Head(chunks)) + ForestLen(Tail(chunks))

DataVariants ==
    { DataChunk(<< >>, [type |-> DATA, id |-> DATA, name |-> << >>, size |-> 0]),
      DataChunk(<< 104, 105 >>,
                [type |-> DATA, id |-> TestCC, name |-> << 97 >>, size |-> 2]) }

\* a folder built in memory declares its true size, or a stale one (0)
FolderVariants(chunks) ==
    { FolderChunk(chunks, [type |-> FOLD, id |-> TestCC, name |-> << >>,
                           size |-> ForestLen(chunks)]),
      FolderChunk(chunks, [type |-> FOLD, id |-> DATA, name |-> << 102 >>,
                           size |-> ForestLen(chunks)]),
      FolderChunk(chunks, [type |-> FOLD, id |-> DATA, name |-> << 102 >>,
                           size |-> 0]) }

RECURSIVE Forests(_)
RECURSIVE Chunks(_)

\* the chunks of exactly k nodes, the sibling sequences of exactly n nodes
Chunks(k) ==
    (IF k = 1 THEN DataVariants ELSE {})
        \cup UNION { FolderVariants(ch) : ch \in Forests(k - 1) }
Forests(n) ==
    IF n = 0 THEN { << >> }
    ELSE UNION { { << c >> \o r : c \in Chunks(k), r \in Forests(n - k) } : k \in 1..n }

Trees ==
    UNION { { RelicChunky(f, [version |-> [value |-> 1]]) : f \in Forests(n) }
            : n \in 0..MaxChunks }

NoResult == Raise("unset", BytesIO(<< >>))

----------------------------------------------------------------------------
(* The containers of core/abstract.py: a folder and the container keep     *)
(* their child folders and their child data chunks in two lists.            *)

CoreDataChunk(id, metadata, data) == [fourCC |-> id, metadata |-> metadata, data |-> data]

CoreFolderChunk(chunk_id, metadata, folders, data_chunks) ==
    [fourCC |-> chunk_id, metadata |-> metadata,
     folders |-> folders, data_chunks |-> data_chunks]

Chunky(metadata, folders, data_chunks) ==
    [metadata |-> metadata, folders |-> folders, data_chunks |-> data_chunks]

NoChunky == Chunky(<< >>, << >>, << >>)

RECURSIVE ReadFolders(_)
RECURSIVE ReadDataChunks(_)

\* a folder read from the stream's sibling order into the two lists
ReadFolder(c) ==
    CoreFolderChunk(c.header.id, c.header, ReadFolders(c.chunks), ReadDataChunks(c.chunks))

\* the folders among the siblings, in the order read
ReadFolders(chunks) ==
    IF chunks = << >> THEN << >>
    ELSE (IF IsFolder(Head(chunks)) THEN << ReadFolder(Head(chunks)) >> ELSE << >>)
             \o ReadFolders(Tail(chunks))

\* the data chunks among the siblings, in the order read
ReadDataChunks(chunks) ==
    IF chunks = << >> THEN << >>
    ELSE (IF IsFolder(Head(chunks)) THEN << >>
          ELSE << CoreDataChunk(Head(chunks).header.id, Head(chunks).header,
                                Head(chunks).data) >>)
             \o ReadDataChunks(Tail(chunks))

\* the siblings a writer emits from the two lists: one list, then the other
RECURSIVE WriteSiblings(_, _, _)
WriteSiblings(folders, data_chunks, foldersFirst) ==
    LET fs == [i \in 1..Len(folders) |->
                 FolderChunk(WriteSiblings(folders[i].folders, folders[i].data_chunks,
                                           foldersFirst),
                             folders[i].metadata)]
        ds == [i \in 1..Len(data_chunks) |->
                 DataChunk(data_chunks[i].data, data_chunks[i].metadata)]
    IN  IF foldersFirst THEN fs \o ds ELSE ds \o fs

----------------------------------------------------------------------------
(* The codec scenario: build, pack, reposition, damage, unpack *)

\* None is the empty sequence, a value v is << v >>
None == << >>
Some(v) == << v >>

NoRead == [err |-> "unset", val |-> << >>, first |-> FALSE, wasClosed |-> FALSE, at |-> 0,
           after |-> 0, reads |-> 0, assigned |-> << >>]

\* the codec's variables while another scenario runs
CodecIdle ==
    /\ tree = RelicChunky(<< >>, [version |-> [value |-> 1]])
    /\ stream = BytesIO(<< >>)
    /\ damage = "none"
    /\ call = [read_magic |-> TRUE, start |-> 0]
    /\ result = NoResult
    /\ pc = "idle"
    /\ chunky = NoChunky
    /\ rewritten = << >>

\* the Version scenario's variables while another scenario runs
VerIdle ==
    /\ vargs = << << >>, << >> >>
    /\ vobj = << >>
    /\ vcmp = [op |-> "none", res |-> "none"]

\* the tree scenario's variables while another scenario runs
TreeIdle ==
    /\ heap = << >>
    /\ tcall = [op |-> "none", node |-> 0, r |-> << >>]
    /\ tpc = "idle"
    /\ gen = << >>

\* the dispatch scenario's variables while another scenario runs
DispIdle ==
    /\ installed = { }
    /\ apis = << >>
    /\ dstream = BytesIO(<< >>)
    /\ dres = NoResult
    /\ dpc = "idle"

\* the serializer scenario's variables while another scenario runs
NoCall == [op |-> "none", ser |-> "none", arg |-> << >>, r |-> NoResult,
           before |-> BytesIO(<< >>), other |-> NoResult]

SerIdle ==
    /\ sio = BytesIO(<< >>)
    /\ sres = NoCall
    /\ spc = "idle"

\* the filesystem scenario's variables while another scenario runs
FsIdle ==
    /\ src_fs = << >>
    /\ chunky_blob = BytesIO(<< >>)
    /\ dst_fs = NoResult
    /\ fpc = "idle"

\* the lazy chunk's variables while another scenario runs
LazyIdle ==
    /\ lstream = [buf |-> << >>, pos |-> 0, closed |-> FALSE, reads |-> 0]
    /\ chunk = [size |-> 0, _data |-> None, _lazy_info |-> None]
    /\ eager = Raise("unset", BytesIO(<< >>))
    /\ lastRead = NoRead
    /\ assigned = None

Init ==
    /\ tree \in Trees
    /\ stream = BytesIO(<< >>)
    /\ damage = "none"
    /\ call = [read_magic |-> TRUE, start |-> 0]
    /\ result = NoResult
    /\ pc = "built"
    /\ chunky = NoChunky
    /\ rewritten = << >>
    /\ LazyIdle
    /\ VerIdle
    /\ FsIdle
    /\ SerIdle
    /\ DispIdle
    /\ TreeIdle

\* the container is written to the empty sink
Pack ==
    /\ pc = "built"
    /\ stream' = RelicChunky_pack(stream, tree).stream
    /\ pc' = "packed"
    /\ UNCHANGED <<tree, damage, call, result, chunky, rewritten, notCodec>>

\* the caller repositions the stream: to the start, or past the magic word
\* it has checked itself
Seek ==
    /\ pc = "packed"
    /\ \E p \in {0, Len(MagicWord)} : stream' = StreamSeek(stream, p)
    /\ pc' = "ready"
    /\ UNCHANGED <<tree, damage, call, result, chunky, rewritten, notCodec>>

\* the last byte of the source is lost
Truncate ==
    /\ pc = "ready"
    /\ damage = "none"
    /\ stream' = [stream EXCEPT !.buf = SubSeq(stream.buf, 1, Len(stream.buf) - 1)]
    /\ damage' = "truncated"
    /\ UNCHANGED <<tree, call, result, pc, chunky, rewritten, notCodec>>

\* a byte of the magic word is not the expected one
Corrupt ==
    /\ pc = "ready"
    /\ damage = "none"
    /\ \E i \in {1, Len(MagicWord)} :
          stream' = [stream EXCEPT !.buf[i] = (stream.buf[i] + 1) % 256]
    /\ damage' = "corrupted"
    /\ UNCHANGED <<tree, call, result, pc, chunky, rewritten, notCodec>>

Unpack ==
    /\ pc = "ready"
    /\ \E read_magic \in BOOLEAN :
          /\ call' = [read_magic |-> read_magic, start |-> stream.pos]
          /\ result' = RelicChunky_unpack(stream, read_magic)
    /\ stream' = result'.stream
    /\ pc' = "parsed"
    /\ UNCHANGED <<tree, damage, chunky, rewritten, notCodec>>

\* the parsed chunks are kept as a core Chunky
Load ==
    /\ pc = "parsed"
    /\ result.err = "none"
    /\ chunky' = Chunky(result.val.header, ReadFolders(result.val.chunks),
                        ReadDataChunks(result.val.chunks))
    /\ pc' = "loaded"
    /\ UNCHANGED <<tree, stream, damage, call, result, rewritten, notCodec>>

\* the core Chunky's chunks are written back
Rewrite ==
    /\ pc = "loaded"
    /\ \E foldersFirst \in BOOLEAN :
          rewritten' = WriteSiblings(chunky.folders, chunky.data_chunks, foldersFirst)
    /\ pc' = "rewritten"
    /\ UNCHANGED <<tree, stream, damage, call, result, chunky, notCodec>>

Next == Pack \/ Seek \/ Truncate \/ Corrupt \/ Unpack \/ Load \/ Rewrite

Spec == Init /\ [][Next]_vars

----------------------------------------------------------------------------
(* Properties of the codec *)

\* the unpack read the undamaged bytes of the packed container from where
\* its arguments expect the stream to be
CleanParse ==
    /\ pc = "parsed"
    /\ damage = "none"
    /\ call.start = (IF call.read_magic THEN 0 ELSE Len(MagicWord))

\* the chunks with every declared size replaced by the body's byte length
RECURSIVE WithTrueSizes(_)
TrueSize(c) ==
    IF IsFolder(c)
    THEN FolderChunk(WithTrueSizes(c.chunks),
                     [c.header EXCEPT !.size = ForestLen(c.chunks)])
    ELSE DataChunk(c.data, [c.header EXCEPT !.size = Len(c.data)])
WithTrueSizes(chunks) == [i \in 1..Len(chunks) |-> TrueSize(chunks[i])]

RECURSIVE Depth(_)
Depth(c) ==
    IF c.chunks = << >> THEN 1
    ELSE 1 + CHOOSE d \in 0..MaxChunks + 1 :
                 /\ \E i \in 1..Len(c.chunks) : Depth(c.chunks[i]) = d
                 /\ \A i \in 1..Len(c.chunks) : Depth(c.chunks[i]) <= d

\* a folder that holds a folder that holds a chunk, one of the two declaring
\* a stale size
HasStaleNestedFolder ==
    \E i \in 1..Len(tree.chunks) :
        /\ Depth(tree.chunks[i]) = 3
        /\ TrueSize(tree.chunks[i]) # tree.chunks[i]

\* C1 as stated: parsing the bytes produced by serializing T yields a tree
\* equal to T, declared sizes included.
C1_RoundTripExact ==
    CleanParse => result.err = "none" /\ result.val = tree

\* C1 amended: parsing the bytes produced by serializing T yields T with
\* every declared size replaced by the byte length of the chunk's body (same
\* version, codes, names, payloads and child order); it is T itself when T
\* declares the true sizes.
C1_RoundTripTrueSizes ==
    CleanParse =>
        /\ result.err = "none"
        /\ result.val = RelicChunky(WithTrueSizes(tree.chunks), tree.header)
        /\ (WithTrueSizes(tree.chunks) = tree.chunks => result.val = tree)

C1_Witness ==
    CleanParse /\ call.read_magic /\ HasStaleNestedFolder /\ result.err = "none"

\* the serialized chunks, written on their own to an empty sink
Serialized(chunks) == write_all_chunks(BytesIO(<< >>), chunks).stream.buf

\* b is a region of serialized sibling chunks: each chunk's header is
\* followed by its declared size of bytes, and for a folder these bytes are
\* the serialized children, which are such a region themselves
RECURSIVE SizeInvariant(_, _)
SizeInvariant(b, chunks) ==
    IF chunks = << >> THEN b = << >>
    ELSE LET c == Head(chunks)
             hl == Len(ChunkHeader_bytes(c.header))
             size == FromU32(SubSeq(b, hl - 3, hl))
             body == SubSeq(b, hl + 1, hl + size)
         IN  /\ Len(b) >= hl
             /\ Len(b) >= hl + size
             /\ IsFolder(c) =>
                   /\ size = Len(Serialized(c.chunks))
                   /\ body = Serialized(c.chunks)
                   /\ SizeInvariant(body, c.chunks)
             /\ SizeInvariant(SubSeq(b, hl + size + 1, Len(b)), Tail(chunks))

\* the bytes written after the magic word and the container header
PackedBody == SubSeq(stream.buf, Len(MagicWord) + 4 + 1, Len(stream.buf))

\* C2: after FolderChunk.pack, the size field of every folder of the output,
\* at every depth, is the number of bytes written for its children, and the
\* bytes after its header are exactly the serialized children in order.
C2_SizeInvariant ==
    (pc = "packed") => SizeInvariant(PackedBody, tree.chunks)

C2_Witness ==
    pc = "packed" /\ HasStaleNestedFolder

\* the calls of FolderChunk.pack that writing the chunks to sink s makes, at
\* every depth: the sink as each call finds it, and the folder
RECURSIVE PackCalls(_, _)
PackCalls(s, chunks) ==
    IF chunks = << >> THEN { }
    ELSE (IF IsFolder(Head(chunks))
          THEN { [sink |-> s, self |-> Head(chunks)] }
                   \cup PackCalls(ChunkHeader_pack(s, Head(chunks).header).stream,
                                  Head(chunks).chunks)
          ELSE { })
         \cup PackCalls(chunk_pack(s, Head(chunks)).stream, Tail(chunks))

\* the sink as RelicChunky.pack hands it to the chunk writer
BodySink == RelicChunkyHeader_pack(StreamWrite(BytesIO(<< >>), MagicWord).stream,
                                   tree.header).stream

\* the layout of sibling chunks: each header (with the true size), then the
\* children or the payload, then the next sibling
RECURSIVE ForestBytes(_)
ForestBytes(chunks) ==
    IF chunks = << >> THEN << >>
    ELSE ChunkHeader_bytes(TrueSize(Head(chunks)).header)
           \o (IF IsFolder(Head(chunks)) THEN ForestBytes(Head(chunks).chunks)
               ELSE Head(chunks).data)
           \o ForestBytes(Tail(chunks))

\* C17: every call of FolderChunk.pack, at every depth, made with the sink at
\* `start`, returns with the sink at the end of the folder's body; the count
\* returned is that position minus `start`, the header's bytes plus the
\* children's; the bytes before `start` are unchanged; and the next sibling
\* follows the folder immediately.
C17_ForwardPositionKept ==
    (pc = "packed") =>
        /\ \A call_ \in PackCalls(BodySink, tree.chunks) :
              LET start == call_.sink.pos
                  r == FolderChunk_pack(call_.sink, call_.self)
              IN  /\ r.stream.pos = start + r.written
                  /\ r.written = ChunkLen(call_.self)
                  /\ r.stream.pos = Len(r.stream.buf)
                  /\ SubSeq(r.stream.buf, 1, start) = SubSeq(call_.sink.buf, 1, start)
        /\ PackedBody = ForestBytes(tree.chunks)
        /\ stream.pos = Len(stream.buf)

\* a folder with a child was packed after the start of the body, in a
\* container of several top-level chunks
C17_Witness ==
    /\ pc = "packed"
    /\ PackedBody = ForestBytes(tree.chunks)
    /\ \E call_ \in PackCalls(BodySink, tree.chunks) :
          /\ call_.sink.pos > Len(MagicWord) + 4
          /\ call_.self.chunks # << >>
    /\ Len(tree.chunks) > 1

\* the bytes the unpack found at the stream's position when it was called
NextBytes == SubSeq(stream.buf, call.start + 1,
                    Min(call.start + Len(MagicWord), Len(stream.buf)))

\* C3 as stated: RelicChunky.unpack on a stream whose next 16 bytes are not
\* the magic word fails with a magic-mismatch error and returns no container.
C3_MagicRejected ==
    (pc = "parsed" /\ NextBytes # MagicWord) => result.err = "MagicMismatchError"

\* C3 amended: RelicChunky.unpack called with read_magic true (the default)
\* on a stream whose next 16 bytes are not the magic word fails with a
\* magic-mismatch error before any byte after the word is read, and returns
\* no container.
C3_MagicRejectedWhenRead ==
    (pc = "parsed" /\ call.read_magic /\ NextBytes # MagicWord) =>
        /\ result.err = "MagicMismatchError"
        /\ result.val = << >>
        /\ result.stream.pos <= call.start + Len(MagicWord)

C3_Witness ==
    /\ pc = "parsed"
    /\ call.read_magic
    /\ damage = "corrupted"
    /\ call.start = 0
    /\ tree.chunks # << >>
    /\ result.err = "MagicMismatchError"

\* C9: the children of a folder and the top-level chunks of a container are
\* one ordered sequence of interleaved folders and data chunks, and reading
\* then writing keeps that exact sequence.
C9_SiblingOrderKept ==
    (pc = "rewritten") => rewritten = result.val.chunks

\* C5: parsing a valid container whose last byte (a byte of its last chunk)
\* was removed fails with a FormatError.
C5_TruncationIsFormatError ==
    (pc = "parsed" /\ damage = "truncated" /\ tree.chunks # << >>
        /\ call.start = (IF call.read_magic THEN 0 ELSE Len(MagicWord)))
    => result.err = "FormatError"

----------------------------------------------------------------------------
(* Lazy data chunks (core/abstract.py) *)

\* stream.read of the backing stream, which counts the reads made of it
CountedRead(s, n) ==
    [StreamRead(s, n) EXCEPT !.stream.reads = @ + 1]

\* _ChunkLazyInfo.read reading at the caller's position: no seek to jump_to
ChunkLazyInfo_read_NoJump(self, s) ==
    IF s.closed THEN Raise("ValueError", s)
    ELSE LET buffer == CountedRead(s, self.size)
         IN  Ok(buffer.data, StreamSeek(buffer.stream, StreamTell(s)))

\* _ChunkLazyInfo.read without the seek back to the caller's position
ChunkLazyInfo_read_NoJumpBack(self, s) ==
    IF s.closed THEN Raise("ValueError", s)
    ELSE LET buffer == CountedRead(StreamSeek(s, self.jump_to), self.size)
         IN  Ok(buffer.data, buffer.stream)

\* _ChunkLazyInfo.read: tell, seek to jump_to, read size bytes, seek back.
\* A closed stream raises ValueError at the first call made on it.
ChunkLazyInfo_read(self, s) ==
    IF s.closed THEN Raise("ValueError", s)
    ELSE LET jump_back == StreamTell(s)
             buffer == CountedRead(StreamSeek(s, self.jump_to), self.size)
         IN  Ok(buffer.data, StreamSeek(buffer.stream, jump_back))

\* RawDataChunk.data (getter) returning what it read without keeping it
RawDataChunk_data_NoCache(self, s) ==
    IF self._data = None
    THEN IF self._lazy_info = None
         THEN [err |-> "TypeError", val |-> << >>, stream |-> s, chunk |-> self]
         ELSE LET r == ChunkLazyInfo_read(self._lazy_info[1], s)
              IN  [err |-> r.err, val |-> r.val, stream |-> r.stream, chunk |-> self]
    ELSE [err |-> "none", val |-> self._data[1], stream |-> s, chunk |-> self]

\* RawDataChunk.data (getter): [err, val, stream, chunk]
RawDataChunk_data(self, s) ==
    IF self._data = None
    THEN IF self._lazy_info = None
         THEN [err |-> "TypeError", val |-> << >>, stream |-> s, chunk |-> self]
         ELSE LET r == ChunkLazyInfo_read(self._lazy_info[1], s)
              IN  IF r.err # "none"
                  THEN [err |-> r.err, val |-> << >>, stream |-> r.stream, chunk |-> self]
                  ELSE [err |-> "none", val |-> r.val, stream |-> r.stream,
                        chunk |-> [self EXCEPT !._data = Some(r.val), !._lazy_info = None]]
    ELSE [err |-> "none", val |-> self._data[1], stream |-> s, chunk |-> self]

\* RawDataChunk.data (setter)
RawDataChunk_set_data(self, value) == [self EXCEPT !._data = Some(value)]

\* RawDataChunk.open: the payload in a BytesIO of its own, which the caller
\* edits (edit is None, or the bytes the caller leaves in it); when not
\* read_only the chunk's data is assigned from it
RawDataChunk_open(self, s, read_only, edit) ==
    LET data == RawDataChunk_data(self, s)
        stream_ == IF edit = None THEN BytesIO(data.val) ELSE BytesIO(edit[1])
    IN  IF data.err # "none" \/ read_only THEN data
        ELSE [data EXCEPT !.chunk = RawDataChunk_set_data(data.chunk,
                                        StreamRead(StreamSeek(stream_, 0),
                                                   Len(stream_.buf)).data),
                          !.val = StreamRead(StreamSeek(stream_, 0), Len(stream_.buf)).data]

\* the backing streams: n bytes, each one telling its place
Source(n) ==
    [buf |-> [i \in 1..n |-> 10 + i], pos |-> 0, closed |-> FALSE, reads |-> 0]

\* the state a lazy parse leaves: the descriptor records the payload's offset
\* and declared size, the stream is past the payload; eager is the payload an
\* eager parse of the same bytes reads
LazyInit ==
    /\ \E n \in 0..MaxBuf, off \in 0..MaxBuf, size \in 0..MaxBuf :
          /\ off <= n
          /\ lstream = StreamSeek(Source(n), off + size)
          /\ chunk = [size |-> size, _data |-> None,
                      _lazy_info |-> Some([jump_to |-> off, size |-> size])]
          /\ eager = ReadExact(StreamSeek(Source(n), off), size, "FormatError")
    /\ lastRead = NoRead
    /\ assigned = None
    /\ CodecIdle
    /\ VerIdle
    /\ FsIdle
    /\ SerIdle
    /\ DispIdle
    /\ TreeIdle

\* chunk.data is read
GetData ==
    /\ LET r == RawDataChunk_data(chunk, lstream)
       IN  /\ chunk' = r.chunk
           /\ lstream' = r.stream
           /\ lastRead' = [err |-> r.err, val |-> r.val,
                           first |-> (chunk._data = None /\ chunk._lazy_info # None),
                           wasClosed |-> lstream.closed, at |-> lstream.pos,
                           after |-> r.stream.pos,
                           reads |-> r.stream.reads - lstream.reads,
                           assigned |-> assigned]
    /\ UNCHANGED <<eager, assigned, notLazy>>

\* chunk.data is assigned
SetData ==
    /\ \E value \in { << >>, << 255 >> } :
         /\ chunk' = RawDataChunk_set_data(chunk, value)
         /\ assigned' = Some(value)
    /\ UNCHANGED <<lstream, eager, lastRead, notLazy>>

\* with chunk.open(read_only) as stream: the caller leaves the stream alone
\* or replaces what is in it
Open ==
    /\ \E read_only \in BOOLEAN, edit \in { None, Some(<< >>), Some(<< 255 >>) } :
         LET r == RawDataChunk_open(chunk, lstream, read_only, edit)
         IN  /\ chunk' = r.chunk
             /\ lstream' = r.stream
             /\ assigned' = IF r.err = "none" /\ ~read_only THEN Some(r.val) ELSE assigned
    /\ UNCHANGED <<eager, lastRead, notLazy>>

\* the caller moves the stream it shares with the chunk
CallerSeek ==
    /\ ~lstream.closed
    /\ \E p \in 0..MaxBuf : p # lstream.pos /\ lstream' = StreamSeek(lstream, p)
    /\ UNCHANGED <<chunk, eager, lastRead, assigned, notLazy>>

\* the caller closes the stream
Close ==
    /\ ~lstream.closed
    /\ lstream' = [lstream EXCEPT !.closed = TRUE]
    /\ UNCHANGED <<chunk, eager, lastRead, assigned, notLazy>>

LazyNext == GetData \/ SetData \/ Open \/ CallerSeek \/ Close

SpecLazy == LazyInit /\ [][LazyNext]_vars

\* C6: the payload a lazy read materializes is byte-identical to the payload
\* the eager read of the same bytes, offset and size returned, wherever the
\* stream stood at the first access.
C6_LazyEqualsEager ==
    (lastRead.first /\ lastRead.err = "none" /\ eager.err = "none") =>
        lastRead.val = eager.val

C6_Witness ==
    /\ lastRead.first /\ lastRead.err = "none" /\ eager.err = "none"
    /\ Len(lastRead.val) = 2
    /\ lastRead.at = 0
    /\ lastRead.val = eager.val
    /\ chunk._data = Some(eager.val)

\* C7: reading a lazy chunk whose stream was closed before its first read
\* fails with LazyDataUnavailableError.
C7_ClosedIsLazyDataUnavailable ==
    (lastRead.first /\ lastRead.wasClosed) => lastRead.err = "LazyDataUnavailableError"

\* C8: a read that returns bytes returns as many as the chunk's declared
\* size; a backing stream with fewer bytes makes the read fail.
C8_PayloadHasDeclaredSize ==
    (lastRead.first /\ lastRead.err = "none") => Len(lastRead.val) = chunk.size

\* Pending: no bytes, descriptor present.  Loaded: bytes present, no descriptor.
Pending(c) == c._data = None /\ c._lazy_info # None
Loaded(c) == c._data # None /\ c._lazy_info = None

\* C18: a read of `data` that succeeds on a Pending chunk reads the backing
\* stream once and leaves the chunk Loaded with the bytes it returned; a read
\* of a Loaded chunk returns the cached bytes and touches neither the stream
\* nor the chunk; a Loaded chunk never becomes Pending again.
C18_LazyStateMachine ==
    [][ /\ (Pending(chunk) /\ lastRead' # lastRead /\ lastRead'.err = "none") =>
              /\ Loaded(chunk')
              /\ chunk'._data = Some(lastRead'.val)
              /\ lstream'.reads = lstream.reads + 1
        /\ (Loaded(chunk) /\ lastRead' # lastRead) =>
              /\ lastRead'.err = "none"
              /\ lastRead'.val = chunk._data[1]
              /\ chunk' = chunk
              /\ lstream' = lstream
        /\ Loaded(chunk) => ~Pending(chunk') ]_vars

\* a second read, made after the stream was closed, returned the bytes of
\* the first one
C18_Witness ==
    /\ ~lastRead.first
    /\ lastRead.err = "none"
    /\ lastRead.wasClosed
    /\ Len(lastRead.val) = 2
    /\ lastRead.val = eager.val
    /\ assigned = None
    /\ Loaded(chunk)
    /\ lstream.reads = 1

\* C19: a step in which _ChunkLazyInfo.read reads the backing stream leaves
\* the stream at the position it had before, with the same contents.
C19_ReadRestoresPosition ==
    [][ lstream'.reads # lstream.reads =>
            /\ lstream'.pos = lstream.pos
            /\ lstream'.buf = lstream.buf
            /\ lstream'.closed = lstream.closed ]_vars

\* the caller stood at 0 when the two bytes from offset 1 were read
C19_Witness ==
    /\ lastRead.reads = 1
    /\ lastRead.at = 0
    /\ lastRead.val = << 12, 13 >>
    /\ lastRead.after = 0
    /\ lstream.pos = 0

\* C20: once bytes were assigned to the payload, the chunk holds no lazy
\* descriptor and holds the assigned bytes; a read made after an assignment
\* returns the assigned bytes and does not read the backing stream.
C20_AssignmentDropsDescriptor ==
    /\ assigned # None => (chunk._lazy_info = None /\ chunk._data = assigned)
    /\ lastRead.assigned # None =>
          /\ lastRead.err = "none"
          /\ lastRead.val = lastRead.assigned[1]
          /\ lastRead.reads = 0

----------------------------------------------------------------------------
(* Version (core/definitions.py): construction and comparison *)

\* Version(*args): the dataclass __init__ takes the one field `value`
Version_init(args) ==
    IF Len(args) = 1 THEN [err |-> "none", val |-> [value |-> args[1]]]
    ELSE [err |-> "TypeError", val |-> [value |-> 0]]

\* Version.__eq__: both are Versions, so `self.value == other.value`
Version_eq(self, other) == self.value = other.value

\* the six comparison operators as Python resolves them on the class: __eq__
\* is defined, != is its negation, and the class defines no ordering, so
\* <, <=, > and >= raise TypeError
Version_compare(op, self, other) ==
    CASE op = "==" -> Version_eq(self, other)
      [] op = "!=" -> ~Version_eq(self, other)
      [] OTHER -> "TypeError"

CompareOps == {"<", "<=", ">", ">=", "==", "!="}

\* the lexicographic comparison of two (major, minor) pairs
LexLess(a, b) == a[1] < b[1] \/ (a[1] = b[1] /\ a[2] < b[2])
Lexicographic(op, a, b) ==
    CASE op = "<" -> LexLess(a, b)
      [] op = "<=" -> ~LexLess(b, a)
      [] op = ">" -> LexLess(b, a)
      [] op = ">=" -> ~LexLess(a, b)
      [] op = "==" -> a = b
      [] op = "!=" -> a # b

\* the arguments a caller gives: (major, minor) as the tests do, or (value,)
VersionArgs ==
    { << major, minor >> : major \in 1..MaxMajor, minor \in 1..MaxMinor }
        \cup { << value >> : value \in 1..MaxMajor }

VerInit ==
    /\ vargs \in VersionArgs \X VersionArgs
    /\ vobj = << >>
    /\ vcmp = [op |-> "none", res |-> "none"]
    /\ CodecIdle
    /\ LazyIdle
    /\ FsIdle
    /\ SerIdle
    /\ DispIdle
    /\ TreeIdle

\* this = Version(*vargs[1]); other = Version(*vargs[2])
Construct ==
    /\ vobj = << >>
    /\ vobj' = << Version_init(vargs[1]), Version_init(vargs[2]) >>
    /\ UNCHANGED <<vargs, vcmp, notVer>>

\* this <op> other
Compare ==
    /\ vobj # << >>
    /\ vobj[1].err = "none" /\ vobj[2].err = "none"
    /\ \E op \in CompareOps :
          vcmp' = [op |-> op, res |-> Version_compare(op, vobj[1].val, vobj[2].val)]
    /\ UNCHANGED <<vargs, vobj, notVer>>

VerNext == Construct \/ Compare

SpecVersion == VerInit /\ [][VerNext]_vars

BuiltFromPairs == Len(vargs[1]) = 2 /\ Len(vargs[2]) = 2

\* C4: two Versions built from (major, minor) exist, and each of the six
\* comparisons of them returns the lexicographic comparison of the pairs.
C4_VersionComparisons ==
    (BuiltFromPairs /\ vobj # << >>) =>
        /\ vobj[1].err = "none" /\ vobj[2].err = "none"
        /\ vcmp.op # "none" => vcmp.res = Lexicographic(vcmp.op, vargs[1], vargs[2])

----------------------------------------------------------------------------
(* The filesystem serializer round trip of tests/test_serialization.py *)

\* ChunkTestHeaderSerializer.pack writing the chunk code before the type tag
ChunkTestHeaderSerializer_pack_Swapped(s, packable) ==
    StreamWrite(s, U32(Len(packable.name)) \o packable.name \o packable.cc
                       \o packable.type \o U32(packable.size))

\* ChunkTestHeaderSerializer.pack: name length, name, type tag, chunk code, size
ChunkTestHeaderSerializer_pack(s, packable) ==
    StreamWrite(s, U32(Len(packable.name)) \o packable.name \o packable.type
                       \o packable.cc \o U32(packable.size))

\* ChunkTestHeaderSerializer.unpack
ChunkTestHeaderSerializer_unpack(s) ==
    Then(ReadExact(s, 4, "struct.error"), LAMBDA l :
    Then(ReadExact(l.stream, FromU32(l.val), "struct.error"), LAMBDA n :
      IF ~IsAscii(n.val) THEN Raise("UnicodeDecodeError", n.stream) ELSE
    Then(ReadExact(n.stream, 4, "struct.error"), LAMBDA t :
      IF t.val \notin {FOLD, DATA} THEN Raise("ChunkTypeError", t.stream) ELSE
    Then(ReadExact(t.stream, 4, "struct.error"), LAMBDA c :
      IF ~IsAscii(c.val) THEN Raise("UnicodeDecodeError", c.stream) ELSE
    Then(ReadExact(c.stream, 4, "struct.error"), LAMBDA z :
      Ok([name |-> n.val, cc |-> c.val, type |-> t.val, size |-> FromU32(z.val)],
         z.stream))))))

\* chunkTestHeader2Meta
chunkTestHeader2Meta(header) == [name |-> header.name, cc |-> header.cc]

\* meta2ChunkTestHeader: type and size are None (here: no type, size 0)
meta2ChunkTestHeader(meta) ==
    [name |-> meta.name, cc |-> meta.cc, type |-> << >>, size |-> 0]

\* Version(0xDE, 0xAD) of the test's serializer
FsVersion == U32(222) \o U32(173)

\* ChunkyFSSerializer.write: magic word, version, the (empty) header, then
\* every file as a data chunk: its header with the payload's size, its bytes
RECURSIVE write_files(_, _)
write_files(s, files) ==
    IF files = << >> THEN s
    ELSE LET h == [meta2ChunkTestHeader(Head(files).essence)
                       EXCEPT !.type = DATA, !.size = Len(Head(files).data)]
             w == ChunkTestHeaderSerializer_pack(s, h)
         IN  write_files(StreamWrite(w.stream, Head(files).data).stream, Tail(files))

ChunkyFSSerializer_write(s, fs) ==
    write_files(StreamWrite(s, MagicWord \o FsVersion).stream, fs)

\* the path a chunk gets in the filesystem read: its name, with a suffix
\* counting the earlier siblings of that name
UniquePath(name, entries) ==
    [name |-> name,
     suffix |-> Cardinality({ i \in 1..Len(entries) : entries[i].path.name = name })]

\* ChunkyFSSerializer.read: every chunk becomes a file whose essence is the
\* header's metadata
RECURSIVE read_files(_, _)
read_files(s, entries) ==
    IF s.pos >= Len(s.buf) THEN Ok(entries, s)
    ELSE Then(ChunkTestHeaderSerializer_unpack(s), LAMBDA h :
         Then(ReadExact(h.stream, h.val.size, "FormatError"), LAMBDA d :
           read_files(d.stream,
                      Append(entries, [path |-> UniquePath(h.val.name, entries),
                                       essence |-> chunkTestHeader2Meta(h.val),
                                       data |-> d.val]))))

ChunkyFSSerializer_read(s) ==
    Then(assert_magic_word(s), LAMBDA m :
    Then(ReadExact(m.stream, Len(FsVersion), "struct.error"), LAMBDA v :
      IF v.val # FsVersion THEN Raise("VersionMismatchError", v.stream)
      ELSE read_files(v.stream, << >>)))

\* NAME = "The Same File" (here "Same") and another name
FsNames == { << 83, 97, 109, 101 >>, << 79 >> }

\* a file made by openbin(str(n), "x") and setinfo(str(n), {"essence": ...})
FsFiles ==
    { [essence |-> chunkTestHeader2Meta([name |-> name, cc |-> TestCC,
                                         type |-> DATA, size |-> 0]),
       data |-> data] : name \in FsNames, data \in { << >>, << 1 >> } }

FsInit ==
    /\ \E n \in 1..MaxFiles : src_fs \in [1..n -> FsFiles]
    /\ chunky_blob = BytesIO(<< >>)
    /\ dst_fs = NoResult
    /\ fpc = "made"
    /\ CodecIdle
    /\ LazyIdle
    /\ VerIdle
    /\ SerIdle
    /\ DispIdle
    /\ TreeIdle

\* serializer.write(chunky_blob, src_fs)
FsWrite ==
    /\ fpc = "made"
    /\ chunky_blob' = ChunkyFSSerializer_write(chunky_blob, src_fs)
    /\ fpc' = "written"
    /\ UNCHANGED <<src_fs, dst_fs, notFs>>

\* chunky_blob.seek(0)
FsSeek ==
    /\ fpc = "written"
    /\ chunky_blob' = StreamSeek(chunky_blob, 0)
    /\ fpc' = "rewound"
    /\ UNCHANGED <<src_fs, dst_fs, notFs>>

\* dst_fs = serializer.read(chunky_blob)
FsRead ==
    /\ fpc = "rewound"
    /\ dst_fs' = ChunkyFSSerializer_read(chunky_blob)
    /\ chunky_blob' = dst_fs'.stream
    /\ fpc' = "read"
    /\ UNCHANGED <<src_fs, notFs>>

FsNext == FsWrite \/ FsSeek \/ FsRead

SpecFs == FsInit /\ [][FsNext]_vars

----------------------------------------------------------------------------
(* The fixed-layout serializers (core/serializers.py) and the values they   *)
(* carry (core/definitions.py).  Python keeps bytes and text apart: a value *)
(* is [t, v] with t its type and v its bytes or characters.                 *)

Bytes(b) == [t |-> "bytes", v |-> b]
Str(c) == [t |-> "str", v |-> c]

\* an exception with the attributes its constructor stores
RaiseWith(e, attrs, s) == [err |-> e, val |-> attrs, stream |-> s]

\* bytes.decode("ascii"): text of the same characters, or UnicodeDecodeError
decode(buffer, s) ==
    IF IsAscii(buffer.v) THEN Ok(Str(buffer.v), s) ELSE Raise("UnicodeDecodeError", s)

\* str.encode("ascii")
encode(value) == Bytes(value.v)

\* Struct("<4s").unpack_stream: 4 bytes as a bytes object
Struct4s_unpack_stream(s) ==
    Then(ReadExact(s, 4, "struct.error"), LAMBDA r : Ok(Bytes(r.val), r.stream))

\* Struct("<4s").pack_stream: the argument must be bytes; it is cut or
\* zero-padded to 4 bytes
Struct4s_pack_stream(s, arg) ==
    IF arg.t # "bytes" THEN Raise("struct.error", s)
    ELSE LET w == StreamWrite(s, [i \in 1..4 |-> IF i <= Len(arg.v) THEN arg.v[i] ELSE 0])
         IN  Ok(w.written, w.stream)

\* Struct("<I").unpack_stream and pack_stream
StructI_unpack_stream(s) ==
    Then(ReadExact(s, 4, "struct.error"), LAMBDA r : Ok(FromU32(r.val), r.stream))

StructI_pack_stream(s, n) ==
    LET w == StreamWrite(s, U32(n)) IN Ok(w.written, w.stream)

\* class ChunkType(str, Enum): the members, and the lookup ChunkType(value)
ChunkTypeMembers == { Str(FOLD), Str(DATA) }

ChunkType(value, s) ==
    IF value \in ChunkTypeMembers THEN Ok(value, s) ELSE Raise("ValueError", s)

\* ChunkTypeSerializer.unpack accepting whatever text it decoded
ChunkTypeSerializer_unpack_AnyText(s) ==
    Then(Struct4s_unpack_stream(s), LAMBDA b :
      IF decode(b.val, b.stream).err # "none"
      THEN RaiseWith("ChunkTypeError", [chunk_type |-> b.val], b.stream)
      ELSE Ok(decode(b.val, b.stream).val, b.stream))

\* ChunkTypeSerializer.unpack
ChunkTypeSerializer_unpack(s) ==
    Then(Struct4s_unpack_stream(s), LAMBDA b :
      IF decode(b.val, b.stream).err # "none"
      THEN RaiseWith("ChunkTypeError", [chunk_type |-> b.val], b.stream)
      ELSE IF ChunkType(decode(b.val, b.stream).val, b.stream).err # "none"
      THEN RaiseWith("ChunkTypeError", [chunk_type |-> decode(b.val, b.stream).val],
                     b.stream)
      ELSE ChunkType(decode(b.val, b.stream).val, b.stream))

\* ChunkTypeSerializer.pack
ChunkTypeSerializer_pack(s, packable) ==
    Struct4s_pack_stream(s, encode(packable))

\* ChunkFourCC.__init__: a code of another length than 4 raises NotImplementedError
ChunkFourCC(code, s) ==
    IF Len(code.v) # 4 THEN Raise("NotImplementedError", s) ELSE Ok([code |-> code], s)

\* ChunkFourCC.__eq__
ChunkFourCC_eq(self, other) == self.code = other.code

\* ChunkFourCCSerializer.unpack: the decode is not guarded
ChunkFourCCSerializer_unpack(s) ==
    Then(Struct4s_unpack_stream(s), LAMBDA b :
    Then(decode(b.val, b.stream), LAMBDA value :
      ChunkFourCC(value.val, value.stream)))

\* ChunkFourCCSerializer.pack: hands the code's text to the layout
ChunkFourCCSerializer_pack(s, packable) ==
    Struct4s_pack_stream(s, packable.code)

\* class Platform(int, Enum): PC = 1
PlatformValues == << 1 >>

Platform(value, s) ==
    IF \E i \in 1..Len(PlatformValues) : PlatformValues[i] = value
    THEN Ok([value |-> value], s) ELSE Raise("ValueError", s)

\* UnknownPlatformError(received): allowed = [p.value for p in Platform]
UnknownPlatformError(received, s) ==
    RaiseWith("UnknownPlatformError",
              [received |-> received, allowed |-> PlatformValues], s)

\* PlatformSerializer.unpack returning the integer it read unchecked
PlatformSerializer_unpack_Unchecked(s) ==
    Then(StructI_unpack_stream(s), LAMBDA value :
      Ok([value |-> value.val], value.stream))

\* PlatformSerializer.unpack
PlatformSerializer_unpack(s) ==
    Then(StructI_unpack_stream(s), LAMBDA value :
      IF Platform(value.val, value.stream).err # "none"
      THEN UnknownPlatformError(value.val, value.stream)
      ELSE Platform(value.val, value.stream))

\* PlatformSerializer.pack
PlatformSerializer_pack(s, value) == StructI_pack_stream(s, value.value)

----------------------------------------------------------------------------
(* The serializer scenario: one field in a stream, unpacked; or a value     *)
(* packed over it and read again                                            *)

\* the bytes a field is made of: NUL, 1, "A", "D", 0xFF
FieldBytes == { 0, 1, 65, 68, 255 }

\* the fields: every 4 bytes of FieldBytes, the tags, "TEST", and short ones
Fields ==
    [1..4 -> FieldBytes] \cup { FOLD, DATA, TestCC, << >>, << 70, 79 >> }

Pad(n, b) == [i \in 1..n |-> b]

\* the valid values of each serializer
PackableValues(ser) ==
    CASE ser = "type" -> ChunkTypeMembers
      [] ser = "cc" -> { ChunkFourCC(Str(c), BytesIO(<< >>)).val : c \in { TestCC, DATA } }
      [] ser = "platform" -> { [value |-> PlatformValues[i]] : i \in 1..Len(PlatformValues) }

\* chunk_type_serializer, chunk_cc_serializer, platform_serializer
unpack(ser, s) ==
    CASE ser = "type" -> ChunkTypeSerializer_unpack(s)
      [] ser = "cc" -> ChunkFourCCSerializer_unpack(s)
      [] ser = "platform" -> PlatformSerializer_unpack(s)

pack(ser, s, v) ==
    CASE ser = "type" -> ChunkTypeSerializer_pack(s, v)
      [] ser = "cc" -> ChunkFourCCSerializer_pack(s, v)
      [] ser = "platform" -> PlatformSerializer_pack(s, v)

SerInit ==
    /\ \E field \in Fields, pre, post \in 0..MaxPad :
         sio = StreamSeek(BytesIO(Pad(pre, 9) \o field \o Pad(post, 7)), pre)
    /\ sres = NoCall
    /\ spc = "fresh"
    /\ CodecIdle
    /\ LazyIdle
    /\ VerIdle
    /\ FsIdle
    /\ DispIdle
    /\ TreeIdle

DoUnpack(ser) ==
    /\ spc = "fresh"
    /\ sres' = [op |-> "unpack", ser |-> ser, arg |-> << >>, r |-> unpack(ser, sio),
                before |-> sio, other |-> NoResult]
    /\ sio' = sres'.r.stream
    /\ spc' = "done"
    /\ UNCHANGED notSer

DoPack(ser) ==
    /\ spc = "fresh"
    /\ \E v \in PackableValues(ser) :
         sres' = [op |-> "pack", ser |-> ser, arg |-> v, r |-> pack(ser, sio, v),
                  before |-> sio, other |-> NoResult]
    /\ sio' = sres'.r.stream
    /\ spc' = "packed"
    /\ UNCHANGED notSer

UnpackType == DoUnpack("type")
UnpackCC == DoUnpack("cc")
\* (integers from 2^31 on are outside of what the model's arithmetic holds)
UnpackPlatform ==
    /\ Len(sio.buf) >= sio.pos + 4 => sio.buf[sio.pos + 4] < 128
    /\ DoUnpack("platform")
PackType == DoPack("type")
PackCC == DoPack("cc")
PackPlatform == DoPack("platform")

\* seek back to where the value was packed and unpack it
Reread ==
    /\ spc = "packed"
    /\ sres.r.err = "none"
    /\ sres' = [sres EXCEPT !.op = "reread", !.other = sres.r,
                            !.r = unpack(sres.ser, StreamSeek(sio, sres.before.pos))]
    /\ sio' = sres'.r.stream
    /\ spc' = "done"
    /\ UNCHANGED notSer

SerNext ==
    \/ UnpackType \/ UnpackCC \/ UnpackPlatform
    \/ PackType \/ PackCC \/ PackPlatform
    \/ Reread

SpecSer == SerInit /\ [][SerNext]_vars

\* the 4 bytes at the position the last call started from
HasField == Len(sres.before.buf) >= sres.before.pos + 4
RawField == SubSeq(sres.before.buf, sres.before.pos + 1, sres.before.pos + 4)

Unpacked(ser) == sres.op = "unpack" /\ sres.ser = ser /\ HasField

\* C11 as stated: unpacking a type tag returns for "FOLD" and "DATA" only, and
\* for every other 4 bytes raises ChunkTypeError carrying the raw bytes read.
C11_TypeErrorCarriesRawBytes ==
    Unpacked("type") =>
        IF RawField \in { FOLD, DATA }
        THEN sres.r.err = "none" /\ sres.r.val = Str(RawField)
        ELSE sres.r.err = "ChunkTypeError" /\ sres.r.val.chunk_type = Bytes(RawField)

\* C11: unpacking a type tag returns for "FOLD" and "DATA" only; every other
\* 4 bytes raise ChunkTypeError, which carries the raw bytes when they are
\* not ASCII and the decoded 4-character text when they are.
C11_TypeErrorCarriesWhatWasRead ==
    Unpacked("type") =>
        IF RawField \in { FOLD, DATA }
        THEN sres.r.err = "none" /\ sres.r.val = Str(RawField)
        ELSE /\ sres.r.err = "ChunkTypeError"
             /\ sres.r.val.chunk_type =
                    IF IsAscii(RawField) THEN Str(RawField) ELSE Bytes(RawField)

C11_Witness ==
    /\ Unpacked("type")
    /\ IsAscii(RawField)
    /\ RawField \notin { FOLD, DATA }
    /\ sres.r.err = "ChunkTypeError"
    /\ sres.r.val.chunk_type = Str(RawField)

\* C12: unpacking a chunk code whose 4 bytes are not ASCII raises
\* ChunkNameError.
C12_NonAsciiCodeIsChunkNameError ==
    (Unpacked("cc") /\ ~IsAscii(RawField)) => sres.r.err = "ChunkNameError"

\* C14: unpacking a platform field returns for the integers of Platform only;
\* every other integer raises UnknownPlatformError whose received is the
\* integer read and whose allowed is the list of the Platform values.
C14_UnknownPlatform ==
    Unpacked("platform") =>
        IF FromU32(RawField) = 1
        THEN sres.r.err = "none" /\ sres.r.val = [value |-> 1]
        ELSE /\ sres.r.err = "UnknownPlatformError"
             /\ sres.r.val.received = FromU32(RawField)
             /\ sres.r.val.allowed = << 1 >>

C14_Witness ==
    /\ Unpacked("platform")
    /\ FromU32(RawField) = 256
    /\ sres.r.err = "UnknownPlatformError"
    /\ sres.r.val = [received |-> 256, allowed |-> << 1 >>]

\* the bytes of buffer b outside of the 4 bytes from position p are those of a
SameOutside(a, b, p) ==
    /\ Len(b) = (IF Len(a) > p + 4 THEN Len(a) ELSE p + 4)
    /\ \A i \in 1..Len(a) : (i <= p \/ i > p + 4) => b[i] = a[i]

\* C16: pack of a valid value writes 4 bytes at the sink's position and
\* returns 4; unpack of those bytes consumes 4 bytes and returns an equal
\* value; for the chunk type, the chunk code and the platform serializer.
C16_PackWritesFourAndUnpackReturnsIt ==
    /\ sres.op = "pack" =>
         /\ sres.r.err = "none"
         /\ sres.r.val = 4
         /\ sio.pos = sres.before.pos + 4
         /\ SameOutside(sres.before.buf, sio.buf, sres.before.pos)
    /\ sres.op = "reread" =>
         /\ sres.r.err = "none"
         /\ sres.r.val = sres.arg
         /\ sio.pos = sres.before.pos + 4

----------------------------------------------------------------------------
(* Chunk codes (core/definitions.py): construction and equality *)

\* the strings a code is constructed from: "ABC..", "abc..", "012.." of every
\* length up to MaxCodeLen
CodeStrings ==
    { Str([i \in 1..k |-> first + i - 1]) : k \in 0..MaxCodeLen, first \in { 65, 97, 48 } }

CodeInit ==
    /\ sio = BytesIO(<< >>)
    /\ sres = NoCall
    /\ spc = "code"
    /\ CodecIdle
    /\ LazyIdle
    /\ VerIdle
    /\ FsIdle
    /\ DispIdle
    /\ TreeIdle

\* ChunkFourCC(code) and ChunkFourCC(other)
NewCodes ==
    /\ spc = "code"
    /\ \E code, other \in CodeStrings :
         sres' = [op |-> "new", ser |-> "cc", arg |-> << code, other >>,
                  r |-> ChunkFourCC(code, sio), before |-> sio,
                  other |-> ChunkFourCC(other, sio)]
    /\ spc' = "built"
    /\ UNCHANGED <<sio, notSer>>

\* code == other, of the two codes constructed
CompareCodes ==
    /\ spc = "built"
    /\ sres.r.err = "none"
    /\ sres.other.err = "none"
    /\ sres' = [sres EXCEPT !.op = "eq",
                            !.r = Ok(ChunkFourCC_eq(sres.r.val, sres.other.val), sio)]
    /\ spc' = "compared"
    /\ UNCHANGED <<sio, notSer>>

CodeNext == NewCodes \/ CompareCodes

SpecCode == CodeInit /\ [][CodeNext]_vars

\* C13: constructing a ChunkFourCC from a string of another length than 4
\* raises FormatError; from a string of length 4 it returns a code of that
\* string, and two codes of equal strings compare equal.
C13_CodeLengthIsFormatError ==
    /\ sres.op = "new" =>
         IF Len(sres.arg[1].v) # 4
         THEN sres.r.err = "FormatError"
         ELSE sres.r.err = "none" /\ sres.r.val.code = sres.arg[1]
    /\ sres.op = "eq" => (sres.r.val <=> sres.arg[1] = sres.arg[2])

----------------------------------------------------------------------------
(* Version dispatch: the registry of core/_apis.py and the read that looks   *)
(* the container's version up in it                                         *)

\* the modules "v1" and "v3": their `version` and `API` attributes
Module(module_name) ==
    CASE module_name = "v1" -> [version |-> [value |-> 1], API |-> "v1"]
      [] module_name = "v3" -> [version |-> [value |-> 3], API |-> "v3"]

\* get_api: import the module (ImportError when it is not installed), take
\* its version and API, check their types
get_api(module_name, env) ==
    IF module_name \notin env THEN Raise("ImportError", BytesIO(<< >>))
    ELSE IF DOMAIN Module(module_name).version # { "value" }
    THEN Raise("TypeError", BytesIO(<< >>))
    ELSE IF Module(module_name).API \notin { "v1", "v3" }
    THEN Raise("TypeError", BytesIO(<< >>))
    ELSE Ok(<< Module(module_name).version, Module(module_name).API >>, BytesIO(<< >>))

\* apis[version] = api
SetItem(d, k, v) == [x \in DOMAIN d \cup { k } |-> IF x = k THEN v ELSE d[x]]

\* gather_apis giving up at the first module that cannot be imported
RECURSIVE gather_apis_StopAtMissing(_, _, _)
gather_apis_StopAtMissing(modules, env, d) ==
    IF modules = << >> THEN d
    ELSE IF get_api(Head(modules), env).err = "ImportError" THEN d
    ELSE gather_apis_StopAtMissing(Tail(modules), env,
             SetItem(d, get_api(Head(modules), env).val[1],
                        get_api(Head(modules), env).val[2]))

\* gather_apis: the modules that import are registered under their version,
\* the ones that do not are skipped (d is the dict built so far)
RECURSIVE gather_apis(_, _, _)
gather_apis(modules, env, d) ==
    IF modules = << >> THEN d
    ELSE IF get_api(Head(modules), env).err = "ImportError"
    THEN gather_apis(Tail(modules), env, d)
    ELSE gather_apis(Tail(modules), env,
             SetItem(d, get_api(Head(modules), env).val[1],
                        get_api(Head(modules), env).val[2]))

\* modules = ["v1", "v3"] when the caller gives none
DefaultModules == << "v1", "v3" >>

\* VersionNotSupported(received, allowed)
VersionNotSupported(received, allowed, s) ==
    RaiseWith("VersionNotSupported", [received |-> received, allowed |-> allowed], s)

\* the header and body of a layout: "v3" has a platform field, "v1" has none
API_read(api, s) ==
    IF api = "v3"
    THEN Then(PlatformSerializer_unpack(s), LAMBDA platform :
         Then(read_all_chunks(platform.stream), LAMBDA c :
           Ok([version |-> 3, platform |-> platform.val, chunks |-> c.val], c.stream)))
    ELSE Then(read_all_chunks(s), LAMBDA c :
           Ok([version |-> 1, platform |-> None, chunks |-> c.val], c.stream))

\* read: magic word, version, the lookup of the version in the registry,
\* then the layout's header and body
read(s, api_lookup) ==
    Then(assert_magic_word(s), LAMBDA m :
    Then(Version_unpack(m.stream), LAMBDA version :
      IF version.val \notin DOMAIN api_lookup
      THEN VersionNotSupported(version.val, DOMAIN api_lookup, version.stream)
      ELSE API_read(api_lookup[version.val], version.stream)))

\* what follows the version field: nothing, a platform field (PC, or 0),
\* four bytes that are no type tag, a data chunk, a platform field and a chunk
Rests ==
    LET d == Serialized(<< DataChunk(<< 104, 105 >>,
                 [type |-> DATA, id |-> TestCC, name |-> << 97 >>, size |-> 2]) >>)
    IN  { << >>, U32(1), U32(0), << 88, 88, 88, 88 >>, d, U32(1) \o d }

DispInit ==
    /\ installed \in SUBSET { "v1", "v3" }
    /\ apis = << >>
    /\ \E v \in 0..MaxVersion, rest \in Rests :
         dstream = BytesIO(MagicWord \o U32(v) \o rest)
    /\ dres = NoResult
    /\ dpc = "start"
    /\ CodecIdle
    /\ LazyIdle
    /\ VerIdle
    /\ FsIdle
    /\ SerIdle
    /\ TreeIdle

\* apis = gather_apis()
Gather ==
    /\ dpc = "start"
    /\ apis' = gather_apis(DefaultModules, installed, << >>)
    /\ dpc' = "gathered"
    /\ UNCHANGED <<installed, dstream, dres, notDisp>>

\* read(stream, api_lookup=apis)
Read ==
    /\ dpc = "gathered"
    /\ dres' = read(dstream, apis)
    /\ dstream' = dres'.stream
    /\ dpc' = "read"
    /\ UNCHANGED <<installed, apis, notDisp>>

DispNext == Gather \/ Read

SpecDispatch == DispInit /\ [][DispNext]_vars

\* the versions that have a registered layout, and the container's version
Supported == { Module(m).version : m \in installed }
ContainerVersion ==
    [value |-> FromU32(SubSeq(dstream.buf, Len(MagicWord) + 1, Len(MagicWord) + 4))]

----------------------------------------------------------------------------
(* Chunk trees with parent references (core/abstract.py) and chunk code     *)
(* paths (core/definitions.py).  Objects are kept by identity: heap[i] is   *)
(* chunk i, [kind, fourCC, parent, folders, data_chunks], with parent None  *)
(* or Some(identity) and the two lists holding identities; heap[0] is the   *)
(* Chunky.                                                                  *)

\* ChunkFourCCPath.__init__(*parts)
ChunkFourCCPath(parts) == [parts |-> parts]

\* ChunkFourCCPath.parent: parts[:-1]
ChunkFourCCPath_parent(self) ==
    IF self.parts = << >> THEN ChunkFourCCPath(<< >>)
    ELSE ChunkFourCCPath(SubSeq(self.parts, 1, Len(self.parts) - 1))

\* ChunkFourCCPath.__truediv__ putting the code in front of the parts
ChunkFourCCPath_truediv_Prepend(self, value) ==
    ChunkFourCCPath(<< value >> \o self.parts)

\* ChunkFourCCPath.__truediv__: path / code
ChunkFourCCPath_truediv(self, value) == ChunkFourCCPath(self.parts \o << value >>)

\* ChunkFourCCPath.__eq__
ChunkFourCCPath_eq(self, other) == self.parts = other.parts

\* isinstance(parent, p.IdentifiableChunk): the chunks have a fourCC and a
\* fourCC_path, the Chunky has none
IsIdentifiableChunk(obj) == obj.kind \in { "folder", "data" }

\* the fourCC_path property of FolderChunk, DataChunk and RawDataChunk, and
\* _resolve_parent_id(cc, parent)
RECURSIVE fourCC_path(_, _)
resolve_parent_id(h, cc, parent) ==
    IF parent # None /\ IsIdentifiableChunk(h[parent[1]])
    THEN ChunkFourCCPath_truediv(fourCC_path(h, parent[1]), cc)
    ELSE ChunkFourCCPath(<< cc >>)

fourCC_path(h, self) == resolve_parent_id(h, h[self].fourCC, h[self].parent)

(* The trees of the scenario: chunks 1..n, each below the Chunky (0) or     *)
(* below an earlier folder, the child lists in the order the chunks were    *)
(* added.  A top-level chunk refers back to nothing or to the Chunky.       *)

TreeCodes == { [code |-> Str(c)] : c \in { TestCC, DATA } }

\* the elements of a finite set of naturals in ascending order
Ascending(S) ==
    [k \in 1..Cardinality(S) |->
        CHOOSE x \in S : Cardinality({ y \in S : y < x }) = k - 1]

\* FolderChunk.__init__ / DataChunk.__init__ / Chunky: the objects of a tree
\* given each chunk's kind, code, the identity of its container and whether
\* it was constructed with parent= that container (the constructors leave the
\* parent of the chunks in `folders` and `data_chunks` alone)
BuildHeap(n, kind, code, par, linked) ==
    [i \in 0..n |->
        LET kids(k) == Ascending({ j \in 1..n : par[j] = i /\ kind[j] = k })
        IN  IF i = 0
            THEN [kind |-> "chunky", fourCC |-> None, parent |-> None,
                  folders |-> kids("folder"), data_chunks |-> kids("data")]
            ELSE [kind |-> kind[i], fourCC |-> code[i],
                  parent |-> IF linked[i] THEN Some(par[i]) ELSE None,
                  folders |-> IF kind[i] = "folder" THEN kids("folder")
                              ELSE << >>,
                  data_chunks |-> IF kind[i] = "folder" THEN kids("data")
                                  ELSE << >>]]

\* the containers a tree of these kinds can have: the Chunky or an earlier
\* folder
Containers(n, kind) ==
    { f \in [1..n -> 0..(n - 1)] :
        \A i \in 1..n : f[i] < i /\ (f[i] = 0 \/ kind[f[i]] = "folder") }

ChunkIds(h) == DOMAIN h \ { 0 }

\* every tree of 1..MaxNodes chunks with the two codes
TreeInit ==
    /\ \E n \in 1..MaxNodes :
        \E kind \in [1..n -> { "folder", "data" }] :
            \E code \in [1..n -> TreeCodes], par \in Containers(n, kind),
               linked \in [1..n -> BOOLEAN] :
                heap = BuildHeap(n, kind, code, par, linked)
    /\ tcall = [op |-> "none", node |-> 0, r |-> << >>]
    /\ tpc = "built"
    /\ gen = << >>
    /\ CodecIdle
    /\ LazyIdle
    /\ VerIdle
    /\ FsIdle
    /\ SerIdle
    /\ DispIdle

\* chunk.fourCC_path
GetPath ==
    /\ tpc \in { "built", "called" }
    /\ \E i \in ChunkIds(heap) :
        tcall' = [op |-> "fourCC_path", node |-> i, r |-> fourCC_path(heap, i)]
    /\ tpc' = "called"
    /\ UNCHANGED << heap, gen, notTree >>

\* chunk.fourCC_path.parent, on the path just computed
GetPathParent ==
    /\ tpc = "called"
    /\ tcall.op = "fourCC_path"
    /\ tcall' = [op |-> "parent", node |-> tcall.node,
                 r |-> ChunkFourCCPath_parent(tcall.r)]
    /\ tpc' = "called"
    /\ UNCHANGED << heap, gen, notTree >>

TreeNext ==
    \/ GetPath
    \/ GetPathParent

SpecTree == TreeInit /\ [][TreeNext]_vars

\* the objects whose `folders` or `data_chunks` list holds chunk i
Holders(h, i) ==
    { f \in DOMAIN h :
        \/ \E k \in DOMAIN h[f].folders : h[f].folders[k] = i
        \/ \E k \in DOMAIN h[f].data_chunks : h[f].data_chunks[k] = i }

\* the chunks from which S is reached through the lists in at most k steps
RECURSIVE Above(_, _, _)
Above(h, S, k) ==
    IF k = 0 THEN S
    ELSE Above(h, S \cup UNION { Holders(h, i) \ { 0 } : i \in S }, k - 1)

\* the folders that contain chunk i, directly or not
Ancestors(h, i) ==
    UNION { Above(h, { f }, Cardinality(DOMAIN h)) : f \in Holders(h, i) \ { 0 } }

\* the chunk's parent reference is the object holding it (a top-level chunk
\* may have none)
RefersToHolder(h, i) ==
    \/ h[i].parent # None /\ Holders(h, i) = { h[i].parent[1] }
    \/ h[i].parent = None /\ Holders(h, i) = { 0 }

\* the parent references of chunk i and of everything above it follow the tree
FollowsTree(h, i) ==
    \A j \in Ancestors(h, i) \cup { i } : RefersToHolder(h, j)

\* the ancestors of chunk i from the outermost folder down, then i itself
Lineage(h, i) ==
    LET above == Ancestors(h, i)
    IN  [k \in 1..(Cardinality(above) + 1) |->
            IF k = Cardinality(above) + 1 THEN i
            ELSE CHOOSE f \in above : Cardinality(Ancestors(h, f)) = k - 1]

\* C21: for a chunk whose parent references follow the tree, fourCC_path is
\* the codes of its ancestors from the outermost folder down to the chunk
\* itself (depth + 1 codes, one for a chunk without a parent chunk); it is the
\* parent's path with the chunk's code appended, its `parent` is the parent
\* chunk's path, and computing either changes no chunk.
C21_PathState ==
    (tpc = "called" /\ FollowsTree(heap, tcall.node)) =>
        LET i == tcall.node
            line == Lineage(heap, i)
            up == Holders(heap, i) \ { 0 }
        IN  /\ tcall.op = "fourCC_path" =>
                /\ tcall.r.parts = [k \in DOMAIN line |-> heap[line[k]].fourCC]
                /\ Len(tcall.r.parts) = Cardinality(Ancestors(heap, i)) + 1
                /\ up = { } => tcall.r.parts = << heap[i].fourCC >>
                /\ \A f \in up :
                    ChunkFourCCPath_eq(tcall.r,
                        ChunkFourCCPath(fourCC_path(heap, f).parts
                                            \o << heap[i].fourCC >>))
            /\ tcall.op = "parent" =>
                \A f \in up : ChunkFourCCPath_eq(tcall.r, fourCC_path(heap, f))

C21_FourCCPath ==
    /\ []C21_PathState
    /\ [][(GetPath \/ GetPathParent) => heap' = heap]_vars

\* a chunk two folders deep whose path and then path parent were computed,
\* all three codes not the same
C21_Witness ==
    /\ tpc = "called"
    /\ tcall.op = "parent"
    /\ FollowsTree(heap, tcall.node)
    /\ Cardinality(Ancestors(heap, tcall.node)) = 2
    /\ Len(tcall.r.parts) = 2
    /\ tcall.r.parts[1] # tcall.r.parts[2]

----------------------------------------------------------------------------
(* FolderChunk.walk and Chunky.walk (core/abstract.py).  Both are           *)
(* generators: calling walk() runs nothing, each next() runs the body up to *)
(* its next yield.  gen.stack holds the suspended frames, outermost first,  *)
(* each [node, k] with k the number of folders of node already entered.     *)

\* yield self, self.folders, self.data_chunks
walk_yield(h, self) == << self, h[self].folders, h[self].data_chunks >>

\* the loops of walk with the folders taken last to first
RECURSIVE walk_resume_LastFirst(_, _)
walk_resume_LastFirst(h, stack) ==
    IF stack = << >> THEN [stack |-> << >>, yield |-> None]
    ELSE LET top == stack[Len(stack)]
             n == Len(h[top.node].folders)
         IN  IF top.k < n
             THEN LET folder == h[top.node].folders[n - top.k]
                  IN  [stack |-> [stack EXCEPT ![Len(stack)].k = top.k + 1]
                                    \o << [node |-> folder, k |-> 0] >>,
                       yield |-> Some(walk_yield(h, folder))]
             ELSE walk_resume_LastFirst(h, SubSeq(stack, 1, Len(stack) - 1))

\* for folder in self.folders: for _ in folder.walk(): yield _
\* resumed after a yield: the innermost frame enters its next folder, whose
\* walk yields at once; a frame out of folders returns to the one above
RECURSIVE walk_resume(_, _)
walk_resume(h, stack) ==
    IF stack = << >> THEN [stack |-> << >>, yield |-> None]
    ELSE LET top == stack[Len(stack)]
         IN  IF top.k < Len(h[top.node].folders)
             THEN LET folder == h[top.node].folders[top.k + 1]
                  IN  [stack |-> [stack EXCEPT ![Len(stack)].k = top.k + 1]
                                    \o << [node |-> folder, k |-> 0] >>,
                       yield |-> Some(walk_yield(h, folder))]
             ELSE walk_resume(h, SubSeq(stack, 1, Len(stack) - 1))

\* next() on the generator of FolderChunk.walk
FolderChunk_walk(h, g) ==
    IF ~g.started
    THEN [gen |-> [g EXCEPT !.started = TRUE,
                            !.stack = << [node |-> g.root, k |-> 0] >>],
          yield |-> Some(walk_yield(h, g.root))]
    ELSE LET r == walk_resume(h, g.stack)
         IN  [gen |-> [g EXCEPT !.stack = r.stack], yield |-> r.yield]

\* next() on the generator of Chunky.walk: the same body, the folders below
\* walked by FolderChunk.walk
Chunky_walk(h, g) ==
    IF ~g.started
    THEN [gen |-> [g EXCEPT !.started = TRUE,
                            !.stack = << [node |-> g.root, k |-> 0] >>],
          yield |-> Some(walk_yield(h, g.root))]
    ELSE LET r == walk_resume(h, g.stack)
         IN  [gen |-> [g EXCEPT !.stack = r.stack], yield |-> r.yield]

(* The containers walked: every chunk built with its parent reference, one  *)
(* code; besides the trees, containers whose top-level folder list also     *)
(* holds a nested folder (the same object in two lists).                    *)

\* chunky.folders.append(folder) for a folder nested in the container
Share(h, j) == [h EXCEPT ![0].folders = @ \o << j >>]

\* the folders of a container that are not at its top level
NestedFolders(h) ==
    { i \in ChunkIds(h) : h[i].kind = "folder" /\ h[i].parent # Some(0) }

WalkInit ==
    /\ \E n \in 1..MaxNodes :
        \E kind \in [1..n -> { "folder", "data" }] :
            \E par \in Containers(n, kind) :
                LET h == BuildHeap(n, kind, [i \in 1..n |-> [code |-> Str(TestCC)]],
                                   par, [i \in 1..n |-> TRUE])
                IN  \/ heap = h
                    \/ \E j \in NestedFolders(h) : heap = Share(h, j)
    /\ tcall = [op |-> "none", node |-> 0, r |-> << >>]
    /\ tpc = "built"
    /\ gen = << >>
    /\ CodecIdle
    /\ LazyIdle
    /\ VerIdle
    /\ FsIdle
    /\ SerIdle
    /\ DispIdle

\* chunky.walk() or folder.walk(): the generator is created, nothing runs
WalkStart ==
    /\ tpc = "built"
    /\ \E i \in { j \in DOMAIN heap : heap[j].kind # "data" } :
        /\ gen' = [root |-> i, started |-> FALSE, stack |-> << >>]
        /\ tcall' = [op |-> "walk", node |-> i, r |-> << >>]
    /\ tpc' = "walking"
    /\ UNCHANGED << heap, notTree >>

\* next(generator): one more triple, or StopIteration
WalkNext ==
    /\ tpc = "walking"
    /\ LET step == IF heap[gen.root].kind = "chunky"
                   THEN Chunky_walk(heap, gen)
                   ELSE FolderChunk_walk(heap, gen)
       IN  /\ gen' = step.gen
           /\ IF step.yield = None
              THEN /\ tpc' = "exhausted"
                   /\ UNCHANGED tcall
              ELSE /\ tpc' = "walking"
                   /\ tcall' = [tcall EXCEPT !.r = Append(@, step.yield[1])]
    /\ UNCHANGED << heap, notTree >>

WalkStep ==
    \/ WalkStart
    \/ WalkNext

\* the consumer is a for loop: it keeps calling next() until StopIteration
SpecWalk == WalkInit /\ [][WalkStep]_vars /\ WF_vars(WalkNext)

\* the objects reached from S through `folders` in at most k steps
RECURSIVE Below(_, _, _)
Below(h, S, k) ==
    IF k = 0 THEN S
    ELSE Below(h, S \cup UNION { { h[f].folders[j] : j \in DOMAIN h[f].folders } :
                                 f \in S }, k - 1)

\* the root and the folders reachable from it through `folders`
Reachable(h, root) == Below(h, { root }, Cardinality(DOMAIN h))

\* the places of x in the folder lists of what the root reaches
FolderPlaces(h, root, x) ==
    { fk \in Reachable(h, root) \X (1..Cardinality(DOMAIN h)) :
        /\ fk[2] \in DOMAIN h[fk[1]].folders
        /\ h[fk[1]].folders[fk[2]] = x }

\* no folder is reachable from itself or from two parents
TreeShaped(h, root) ==
    /\ FolderPlaces(h, root, root) = { }
    /\ \A x \in Reachable(h, root) \ { root } :
        Cardinality(FolderPlaces(h, root, x)) = 1

\* C22: on a tree-shaped container walk yields (node, folders, data_chunks)
\* exactly once for the root and for every folder reachable through
\* `folders`, in pre-order: the root first, each folder after its parent and
\* all of a folder's subtree before the parent's next folder, siblings in
\* list order; no data chunk is yielded as a node.
C22_Yielded ==
    (tpc \in { "walking", "exhausted" } /\ TreeShaped(heap, tcall.node)) =>
        LET r == tcall.r
            root == tcall.node
            reach == Reachable(heap, root)
        IN  /\ \A p \in DOMAIN r :
                /\ r[p][1] \in reach
                /\ heap[r[p][1]].kind # "data"
                /\ r[p] = << r[p][1], heap[r[p][1]].folders,
                             heap[r[p][1]].data_chunks >>
                /\ \A q \in DOMAIN r : r[q][1] = r[p][1] => q = p
                /\ (p = 1) = (r[p][1] = root)
                /\ p > 1 =>
                    \E q \in 1..(p - 1) :
                        \E k \in DOMAIN heap[r[q][1]].folders :
                            heap[r[q][1]].folders[k] = r[p][1]
            /\ \A f \in reach : \A k, l \in DOMAIN heap[f].folders :
                k < l =>
                    \A p \in DOMAIN r : r[p][1] = heap[f].folders[l] =>
                        \A x \in Reachable(heap, heap[f].folders[k]) :
                            \E q \in 1..(p - 1) : r[q][1] = x
            /\ tpc = "exhausted" => { r[p][1] : p \in DOMAIN r } = reach

C22_WalkPreOrder ==
    /\ []C22_Yielded
    /\ [][(WalkStart \/ WalkNext) => heap' = heap]_vars
    /\ (tpc = "walking" /\ TreeShaped(heap, tcall.node)) ~> (tpc = "exhausted")

\* a finished walk of a Chunky with two top-level folders, the first with a
\* folder of its own and a data chunk beside: the nested folder came before
\* its parent's sibling
C22_Witness ==
    /\ tpc = "exhausted"
    /\ TreeShaped(heap, tcall.node)
    /\ tcall.node = 0
    /\ Len(heap[0].folders) = 2
    /\ Len(tcall.r) = 4
    /\ tcall.r[2][1] = heap[0].folders[1]
    /\ tcall.r[3][1] > tcall.r[4][1]
    /\ tcall.r[4][1] = heap[0].folders[2]

====
